---- MODULE Spec2Model ----
(***************************************************************************)
(* Action-coordination and reconciliation engine of the Mobidictum admin   *)
(* system: the codes table of the record store, the actions API that       *)
(* writes intents, the CRUD API that writes rows directly, the action      *)
(* processor that drains intents through the Fienta gateway, and the       *)
(* Fienta monitor (full cycle and fast check).                             *)
(*                                                                         *)
(* The store is a remote table without transactions: one step of the       *)
(* model is one store call (or a gateway call together with the store      *)
(* call that directly follows it).  API requests of other clients may      *)
(* land between any two store calls of a pass.  The processor pass and     *)
(* the monitor run on one event loop and interleave with each other only   *)
(* where the code awaits (asyncio.sleep).                                  *)
(*                                                                         *)
(* Metadata is a Python dict: a function from a finite set of string keys  *)
(* to string values; "None" is Python's None, "ts" an ISO timestamp.       *)
(***************************************************************************)
EXTENDS Naturals, Sequences, FiniteSets, TLC

VARIABLES store, prior, proc, man, mon, afterPass,
          nreq, ncrud, npass, ncycle, nfast, nfault,
          is_running, current_task, tasks, stops, error_count, calls,
          orders, processed_webhooks, hook, resolved, nrows

\* the state of the scheduler: its fields, its loop tasks, the stop() calls
\* in flight and the record of the calls made
schedVars == <<is_running, current_task, tasks, stops, error_count, calls>>

\* resolved records the codes for which _resolve_fienta_code_identifiers has
\* returned identifiers

\* the orders table, the processed_webhooks table and the record of the
\* webhook deliveries
hookVars == <<orders, processed_webhooks, hook>>

vars == <<store, prior, proc, man, mon, afterPass,
          nreq, ncrud, npass, ncycle, nfast, nfault,
          is_running, current_task, tasks, stops, error_count, calls,
          orders, processed_webhooks, hook, resolved, nrows>>

\* ------------------------------------------------------------------ bounds
MaxRequests == 1
MaxCrud == 1
MaxPasses == 2
MaxCycles == 1
MaxFast == 1
MaxFaults == 1
MaxStarts == 3
MaxStops == 2
MaxFailures == 1
MaxAwaits == 1
MaxDeliveries == 3

\* for i in range(15), for j in range(2)
Ticks == 15
PassesPerTick == 2

\* ------------------------------------------------------------- vocabulary
Codes == {"A", "B"}

Statuses ==
  {"active", "used", "expired", "revoked",
   "creating", "updating", "deleting", "renaming", "deleted"}

PendingStatuses == {"creating", "updating", "deleting", "renaming"}

UpdateFields ==
  {"discount_percent", "discount_amount", "max_uses", "expires_at", "description"}

\* ------------------------------------------------------- dict operations
EmptyMd == [k \in {} |-> "None"]

\* d.get(k)
Get(md, k) == IF k \in DOMAIN md THEN md[k] ELSE "None"

\* d.get(k, dflt)
GetOr(md, k, dflt) == IF k \in DOMAIN md THEN md[k] ELSE dflt

\* Python truthiness of a metadata value
Truthy(v) == v \notin {"None", ""}

\* the dict without the keys in K
Drop(md, K) == [k \in DOMAIN md \ K |-> md[k]]

\* {k: v for k, v in d.items() if v is not None}
NotNone(md) == [k \in {x \in DOMAIN md : md[x] /= "None"} |-> md[k]]

\* ------------------------------------------------------- store operations
\* codes.code is the natural key of the codes table: the store holds at most
\* one row per code, and an insert under an existing code raises
NoRow == [status |-> "norow", md |-> EmptyMd]

\* select("*").eq("code", c) returned a row
Exists(st, c) == st[c].status /= "norow"

\* .data[0] of that select
First(st, c) == st[c]

\* variant: a write of status deleted removes the row instead
UpdateStatusMdRemoving(st, c, s, m) ==
  IF ~Exists(st, c) THEN st
  ELSE IF s = "deleted" THEN [st EXCEPT ![c] = NoRow]
  ELSE [st EXCEPT ![c] = [status |-> s, md |-> m]]

\* update({status, metadata}).eq("code", c); matches nothing without a row
UpdateStatusMd(st, c, s, m) ==
  IF Exists(st, c) THEN [st EXCEPT ![c] = [status |-> s, md |-> m]] ELSE st

\* update({metadata}).eq("code", c)
UpdateMd(st, c, m) ==
  IF Exists(st, c) THEN [st EXCEPT ![c] = [status |-> st[c].status, md |-> m]] ELSE st

\* update({status}).eq("code", c)
UpdateStatus(st, c, s) ==
  IF Exists(st, c) THEN [st EXCEPT ![c] = [status |-> s, md |-> st[c].md]] ELSE st

\* insert(row) under a code that has no row
InsertRow(st, c, s, m) == [st EXCEPT ![c] = [status |-> s, md |-> m]]

\* delete().eq("code", c)
DeleteRows(st, c) == [st EXCEPT ![c] = NoRow]

\* variant: the table has no key on code
InsertRejectedNever(st, c) == FALSE

\* an insert under c violates the key
InsertRejected(st, c) == Exists(st, c)

\* the rows of the codes table counted per code: an insert under a code
\* that had no row adds one, a delete removes the rows under the code, an
\* update changes no count
RowsCounted ==
  nrows' = [c \in Codes |->
              IF ~Exists(store', c) THEN 0
              ELSE IF ~Exists(store, c) THEN nrows[c] + 1
              ELSE nrows[c]]

\* the codes in the order in which a select returns their rows
CodeSeq == <<"A", "B">>

RECURSIVE SelectWhere(_, _, _)
\* select("*") filtered on status: snapshots [code, status, md], in order
SelectWhere(st, S, i) ==
  IF i > Len(CodeSeq) THEN <<>>
  ELSE LET c == CodeSeq[i] IN
       (IF st[c].status \in S
          THEN << [code |-> c, status |-> st[c].status, md |-> st[c].md] >>
          ELSE <<>>)
       \o SelectWhere(st, S, i + 1)

\* ------------------------------------------------------------ initial rows
\* metadata the full-cycle upsert writes for one scraped code
SyncMd(item) ==
  ("orders_used" :> item.used) @@ ("order_limit" :> "1") @@
  ("last_scraped" :> "ts") @@ ("fienta_event_id" :> "118714") @@
  ("fienta_discount_id" :> item.did) @@ ("fienta_edit_url" :> item.eurl)

\* variant: every scraped code is taken as active
SyncStatusActive(item) == "active"

\* status the full-cycle upsert computes: ordersUsed < orderLimit
SyncStatus(item) == IF item.used = "0" THEN "active" ELSE "used"

\* what a scrape can report for one code
ScrapeItems ==
  { [used |-> "0", did |-> "id", eurl |-> "url"],
    [used |-> "1", did |-> "id", eurl |-> "url"],
    [used |-> "0", did |-> "None", eurl |-> "None"] }

\* rows the store can hold for one code when the processes start: none, a
\* row as create_code inserts it, or a row as the monitor inserts it
SeedRows ==
  { NoRow,
    [status |-> "active", md |-> EmptyMd],
    [status |-> "active",
     md |-> SyncMd([used |-> "0", did |-> "id", eurl |-> "url"])] }

NoRec == [code |-> "-", status |-> "-", md |-> EmptyMd]

ProcIdle ==
  [pc |-> "idle", queue |-> <<>>, rec |-> NoRec, processed |-> 0,
   calls |-> {}, wrote |-> FALSE, reread |-> "-", passCalls |-> {},
   okCalls |-> {},
   handled |-> {}, quiet |-> FALSE, prevPending |-> {},
   mfprev |-> "-", mferr |-> "-", mfafter |-> "-", existing |-> EmptyMd,
   did |-> "None", eurl |-> "None", res |-> [did |-> "None", eurl |-> "None"],
   selected |-> {}, raised |-> FALSE, ran |-> {}, qfail |-> {}, envelope |-> "-"]

\* the monitor: where it is, the scrape it works on, the rows it selected and
\* wrote, the outcome of the batch job insert, whether a scraped code has
\* orders, the outcome of its last scrape and the envelope it returned last,
\* the scrape data a full cycle started with, and the rows that the codes
\* outside that scrape had at the start; the identifiers list-codes captured
MonIdle ==
  [pc |-> "idle", kind |-> "-", E |-> {}, items |-> <<>>, list |-> <<>>,
   snap |-> [c \in Codes |-> "-"], wrote |-> {},
   job |-> "-", used |-> FALSE, scrape |-> "-", envelope |-> "-",
   rest0 |-> << >>, data |-> << >>, cap |-> << >>]

\* external ids of the orders a scrape or a webhook can carry
OrderIds == {"o1", "o2"}

\* event ids a webhook delivery can carry
EventIds == {"e1", "e2"}

\* no webhook delivery answered yet
NoHook == [status |-> 0, detail |-> "-", eid |-> "-", n |-> 0]

\* history of the passes: "running" while no other actor has written to the
\* store since the running pass started, "returned" while none has written
\* since the start of the pass that returned last, with the codes that pass
\* left in a pending status
NoPass == [st |-> "none", pending |-> {}]

\* a loop task: where it is (pc), whether it holds the event loop (at), the
\* loop variables i and j, a pending cancellation request, the awaits its
\* step has made, the steps finished since the last full cycle, and where
\* the task was when it ended
NoTask ==
  [pc |-> "none", at |-> "await", i |-> 0, j |-> 0, cancel |-> FALSE,
   awaits |-> 0, passes |-> 0, fasts |-> 0, endedIn |-> "-"]

\* a stop() call: not made, awaiting the loop task, or returned; the task it
\* awaits and the loop tasks that had not finished when it was made
NoStop == [pc |-> "none", task |-> 0, alive |-> {}]

\* MonitoringScheduler.__init__
SchedInit ==
  /\ is_running = FALSE
  /\ current_task = 0
  /\ tasks = [t \in 1..MaxStarts |-> NoTask]
  /\ stops = [s \in 1..MaxStops |-> NoStop]
  /\ error_count = 0
  /\ calls = [starts |-> 0, stops |-> 0, failures |-> 0, quiet |-> {}]

Init ==
  /\ SchedInit
  /\ orders = [x \in OrderIds |-> 0]
  /\ processed_webhooks = [e \in EventIds \cup OrderIds |-> 0]
  /\ hook = NoHook
  /\ store \in [Codes -> SeedRows]
  /\ prior = [c \in Codes |-> "norow"]
  /\ proc = ProcIdle
  /\ man = ProcIdle
  /\ mon = MonIdle
  /\ afterPass = NoPass
  /\ resolved = {}
  /\ nrows = [c \in Codes |-> IF Exists(store, c) THEN 1 ELSE 0]
  /\ nreq = 0 /\ ncrud = 0 /\ npass = 0 /\ ncycle = 0 /\ nfast = 0 /\ nfault = 0

\* codes that have a row in a pending status
PendingCodes(st) == {c \in Codes : st[c].status \in PendingStatuses}

\* a write by another actor
Disturb == afterPass' = NoPass

\* history: the status the row under c held when a client last moved it into
\* a pending status
Intent(c) == prior' = [prior EXCEPT ![c] = store[c].status]

\* ------------------------------------------------------------ actions API
CreateInputs == {EmptyMd, "discount_percent" :> "20"}

UpdateInputs ==
  {EmptyMd, "max_uses" :> "5", "note" :> "x", ("max_uses" :> "5") @@ ("note" :> "x")}

\* update_data staged under new_<key>
Staged(data) ==
  [k \in {"new_" \o f : f \in DOMAIN data} |->
     data[CHOOSE f \in DOMAIN data : "new_" \o f = k]]

ReqFrame == UNCHANGED <<resolved, proc, man, mon, ncrud, npass, ncycle, nfast, nfault, schedVars, hookVars>> /\ RowsCounted

\* POST /api/actions/codes/create
request_code_creation(c, data) ==
  /\ nreq < MaxRequests
  /\ IF Exists(store, c)
       THEN UNCHANGED <<store, prior, afterPass, nreq>>
       ELSE /\ nreq' = nreq + 1
            /\ store' = InsertRow(store, c, "creating",
                 data @@ ("action" :> "create") @@ ("requested_at" :> "ts")
                      @@ ("request_method" :> "api"))
            /\ Disturb
            /\ Intent(c)
  /\ ReqFrame

\* POST /api/actions/codes/{code}/update
request_code_update(c, data) ==
  /\ nreq < MaxRequests
  /\ IF ~Exists(store, c)
       THEN UNCHANGED <<store, prior, afterPass, nreq>>
       ELSE /\ nreq' = nreq + 1
            /\ store' = UpdateStatusMd(store, c, "updating",
                 ("action" :> "update") @@ ("requested_at" :> "ts")
                   @@ ("request_method" :> "api")
                   @@ Staged(data) @@ First(store, c).md)
            /\ Disturb
            /\ Intent(c)
  /\ ReqFrame

\* POST /api/actions/codes/{code}/delete
request_code_deletion(c) ==
  /\ nreq < MaxRequests
  /\ IF ~Exists(store, c) \/ First(store, c).status \in PendingStatuses
       THEN UNCHANGED <<store, prior, afterPass, nreq>>
       ELSE /\ nreq' = nreq + 1
            /\ store' = UpdateStatusMd(store, c, "deleting",
                 ("action" :> "delete") @@ ("deletion_source" :> "user_request")
                   @@ ("deletion_method" :> "api_request")
                   @@ ("requested_at" :> "ts") @@ ("request_method" :> "api")
                   @@ ("previous_status" :> First(store, c).status)
                   @@ ("coordination_lock" :> "ts")
                   @@ First(store, c).md)
            /\ Disturb
            /\ Intent(c)
  /\ ReqFrame

\* POST /api/actions/codes/{old_code}/rename
request_code_rename(old, new) ==
  /\ nreq < MaxRequests
  /\ IF ~Exists(store, old) \/ Exists(store, new)
       THEN UNCHANGED <<store, prior, afterPass, nreq>>
       ELSE /\ nreq' = nreq + 1
            /\ store' = UpdateStatusMd(store, old, "renaming",
                 ("action" :> "rename") @@ ("new_code" :> new)
                   @@ ("requested_at" :> "ts") @@ ("request_method" :> "api")
                   @@ ("previous_status" :> First(store, old).status)
                   @@ First(store, old).md)
            /\ Disturb
            /\ Intent(old)
  /\ ReqFrame

\* --------------------------------------------------------------- CRUD API
CrudFrame == UNCHANGED <<resolved, proc, man, mon, nreq, npass, ncycle, nfast, nfault, schedVars, hookVars>> /\ RowsCounted

\* POST /codes with the default status and an empty metadata dict
create_code(c) ==
  /\ ncrud < MaxCrud
  /\ ~Exists(store, c)
  /\ ncrud' = ncrud + 1
  /\ store' = InsertRow(store, c, "active", EmptyMd)
  /\ Disturb
  /\ UNCHANGED prior
  /\ CrudFrame

\* PUT /codes/{code} with only status set
update_code(c, s) ==
  /\ ncrud < MaxCrud
  /\ Exists(store, c)
  /\ ncrud' = ncrud + 1
  /\ store' = UpdateStatus(store, c, s)
  /\ Disturb
  /\ IF s \in PendingStatuses /\ store[c].status \notin PendingStatuses
       THEN Intent(c) ELSE UNCHANGED prior
  /\ CrudFrame

\* -------------------------------------------------------- action processor
\* branch of _process_single_code_action taken for a selected record
DispatchPc(rec) ==
  LET action == Get(rec.md, "action") IN
  IF rec.status = "creating" \/ action = "create" THEN "create"
  ELSE IF rec.status = "deleting" \/ action = "delete" THEN "del_reread"
  ELSE IF rec.status = "updating" \/ action = "update" THEN "update"
  ELSE IF rec.status = "renaming" \/ action = "rename" THEN "rename"
  ELSE "unknown"

\* outcomes of _run_fienta_operation: delete-code runs the Playwright script,
\* create-code, update-code and rename-code return True
GatewayOutcomes(op) ==
  IF op = "delete-code" THEN {TRUE, FALSE}
  ELSE IF op \in {"create-code", "update-code", "rename-code"} THEN {TRUE}
  ELSE {FALSE}

\* what the one-off scrape-code-details run yields for the code: nothing, or
\* a match carrying discountId and/or editUrl
ResolveOutcomes ==
  { [found |-> FALSE, did |-> "None", eurl |-> "None"],
    [found |-> TRUE, did |-> "id", eurl |-> "url"],
    [found |-> TRUE, did |-> "id", eurl |-> "None"],
    [found |-> TRUE, did |-> "None", eurl |-> "url"] }

\* the handler returned: processed += 1, then asyncio.sleep(0.5)
Returned(p) == [p EXCEPT !.pc = "sleep", !.processed = p.processed + 1]

\* the for loop of _process_code_actions takes the next selected record, or
\* the loop is over; a record that falls through every branch of the dispatch
\* only logs a warning
Advance(p) ==
  IF p.queue = <<>>
    THEN [p EXCEPT !.pc = "done", !.rec = NoRec, !.calls = {}, !.wrote = FALSE,
                   !.reread = "-"]
    ELSE LET r == Head(p.queue)
             q == [p EXCEPT !.pc = DispatchPc(r), !.rec = r, !.queue = Tail(p.queue),
                     !.calls = {}, !.wrote = FALSE, !.reread = "-",
                     !.handled = p.handled \cup {r.code},
                     !.did = "None", !.eurl = "None",
                     !.res = [did |-> "None", eurl |-> "None"],
                     !.existing = EmptyMd,
                     !.mfprev = "-", !.mferr = "-", !.mfafter = "-"]
         IN IF q.pc = "unknown" THEN Returned(q) ELSE q

\* variant: an exception of one record ends the loop and reaches the except
\* clause of process_pending_actions
AfterRaiseAbort(p) == [p EXCEPT !.pc = "ret", !.raised = TRUE, !.envelope = "failure"]

\* the except clause of the loop of _process_code_actions logs the exception
\* and the loop goes on with the next record
AfterRaise(p) == Advance([p EXCEPT !.raised = TRUE])

\* the handler raised: the except clause of _process_single_code_action
\* calls _mark_action_failed with the selected record's status and re-raises
Raised(p, err) ==
  [p EXCEPT !.pc = "mf_read", !.mfprev = p.rec.status, !.mferr = err,
            !.mfafter = "raise"]

\* a gateway call of the current handler
Called(p, op) ==
  [p EXCEPT !.calls = p.calls \cup {op},
            !.passCalls = p.passCalls \cup {<<op, p.rec.code>>}]

\* the gateway call of the current handler, made for the selected record,
\* returned True
Succeeded(p, op) == [p EXCEPT !.okCalls = p.okCalls \cup {<<op, p.rec>>}]

ProcFrame == UNCHANGED <<prior, man, mon, nreq, ncrud, ncycle, nfast, schedVars, hookVars>>

\* what a step of the manually triggered pass leaves alone
ManFrame == UNCHANGED <<prior, proc, mon, nreq, ncrud, ncycle, nfast, schedVars, hookVars>>

\* the manually triggered pass is not running or suspended in an asyncio.sleep
ManAtAwait == man.pc \in {"idle", "sleep", "done"}

\* the monitor is idle or suspended in an asyncio.sleep
MonAtAwait == mon.pc \in {"idle", "sync", "cleanup_sel"} \/ (mon.pc = "finish" /\ mon.kind = "full")

\* the processor is idle or suspended in an asyncio.sleep
ProcAtAwait == proc.pc \in {"idle", "sleep", "done"}

\* variant: the query without the status filter
PendingSelectAll(st) == SelectWhere(st, Statuses, 1)

\* the query of _process_code_actions: rows in one of the four pending statuses
PendingSelect(st) == SelectWhere(st, PendingStatuses, 1)

\* a store call of the pass raises (network or server error)
Fault == nfault < MaxFaults /\ nfault' = nfault + 1

NoFault == nfault' = nfault

\* the codes of the selected records
CodesOf(q) == {q[i].code : i \in 1..Len(q)}

\* the four categories of process_pending_actions, and those whose query is
\* guarded by a try/except of its own
Categories == {"codes", "orders", "links", "organizations"}

GuardedCategories == {"orders", "links", "organizations"}

\* process_pending_actions starts: _process_code_actions selects the pending
\* rows and enters the loop; when the select raises, the exception reaches the
\* except clause of process_pending_actions, which returns the failure
\* envelope
PassStart(this, that) ==
  /\ this.pc = "idle"
  /\ npass < MaxPasses
  /\ MonAtAwait
  /\ LET p == [ProcIdle EXCEPT
                 !.quiet = (afterPass.st = "returned"),
                 !.prevPending = afterPass.pending,
                 !.ran = {"codes"}] IN
     \/ /\ NoFault
        /\ that = Advance([p EXCEPT !.queue = PendingSelect(store),
                                     !.selected = CodesOf(PendingSelect(store))])
     \/ /\ Fault
        /\ that = IF "codes" \in GuardedCategories
                     THEN [p EXCEPT !.pc = "done", !.qfail = {"codes"}]
                     ELSE [p EXCEPT !.pc = "ret", !.qfail = {"codes"},
                                    !.envelope = "failure"]
  /\ afterPass' = [st |-> "running", pending |-> {}]
  /\ UNCHANGED <<resolved, nrows, store, npass>>

\* PassStart as a step of the scheduled pass
PStart == PassStart(proc, proc') /\ ManAtAwait /\ ProcFrame

\* after the rate-limiting sleep the loop goes on
PassWake(this, that) ==
  /\ this.pc = "sleep"
  /\ MonAtAwait
  /\ that = Advance(this)
  /\ UNCHANGED <<resolved, nrows, store, afterPass, npass, nfault>>

\* PassWake as a step of the scheduled pass
PWake == PassWake(proc, proc') /\ ManAtAwait /\ ProcFrame

\* _process_order_actions, _process_link_actions and
\* _process_organization_actions: a failing query makes the category return 0,
\* then process_pending_actions builds the success envelope
PassOthers(this, that) ==
  /\ this.pc = "done"
  /\ that = [this EXCEPT !.pc = "ret", !.ran = this.ran \cup GuardedCategories,
                          !.envelope = "success"]
  /\ UNCHANGED <<resolved, nrows, store, afterPass, npass, nfault>>

\* PassOthers as a step of the scheduled pass
POthers == PassOthers(proc, proc') /\ ProcFrame

\* process_pending_actions returns its envelope
PassFinish(this, that) ==
  /\ this.pc = "ret"
  /\ afterPass' = IF afterPass.st = "running"
                    THEN [st |-> "returned", pending |-> PendingCodes(store)]
                    ELSE NoPass
  /\ npass' = npass + 1
  /\ that = ProcIdle
  /\ UNCHANGED <<resolved, nrows, store, nfault>>

\* PassFinish as a step of the scheduled pass
PFinish == PassFinish(proc, proc') /\ ProcFrame

\* creation parameters _handle_code_creation extracts, None values dropped
CreationParams(md) ==
  NotNone(("discount_percent" :> GetOr(md, "discount_percent", "10")) @@
          ("discount_amount" :> Get(md, "discount_amount")) @@
          ("max_uses" :> GetOr(md, "max_uses", "1")) @@
          ("expires_at" :> Get(md, "expires_at")) @@
          ("description" :> GetOr(md, "description", "Auto-created code")))

\* _handle_code_creation
PassCreate(this, that) ==
  /\ this.pc = "create"
  /\ LET p == Called(this, "create-code")
         md == this.rec.md IN
     \E ok \in GatewayOutcomes("create-code") :
       IF ok
         THEN \/ /\ NoFault
                 /\ store' = UpdateStatusMd(store, this.rec.code, "active",
                      CreationParams(md) @@ ("created_in_fienta_at" :> "ts")
                        @@ ("creation_method" :> "api_request") @@ md)
                 /\ that = Returned([Succeeded(p, "create-code") EXCEPT !.wrote = TRUE])
              \/ /\ Fault
                 /\ store' = store
                 /\ that = Raised(Succeeded(p, "create-code"), "store_error")
         ELSE /\ NoFault
              /\ store' = store
              /\ that = Raised(p, "Failed to create code in Fienta")
  /\ UNCHANGED <<resolved, afterPass, npass>>
  /\ RowsCounted

\* PassCreate as a step of the scheduled pass
PCreate == PassCreate(proc, proc') /\ ProcFrame

\* update parameters _handle_code_update finds staged in the metadata
UpdateParams(md) ==
  [f \in {g \in UpdateFields : ("new_" \o g) \in DOMAIN md} |-> md["new_" \o f]]

\* _handle_code_update
PassUpdate(this, that) ==
  /\ this.pc = "update"
  /\ LET md == this.rec.md
         params == UpdateParams(md)
         p == Called(this, "update-code") IN
     IF DOMAIN params = {}
       THEN /\ that = Returned(this)
            /\ store' = store
            /\ NoFault
       ELSE \E ok \in GatewayOutcomes("update-code") :
         IF ok
           THEN \/ /\ NoFault
                   /\ store' = UpdateStatusMd(store, this.rec.code, "active",
                        ("updated_in_fienta_at" :> "ts")
                          @@ ("update_method" :> "api_request") @@ params
                          @@ Drop(md, {"new_" \o f : f \in DOMAIN params}))
                   /\ that = Returned([Succeeded(p, "update-code") EXCEPT !.wrote = TRUE])
                \/ /\ Fault
                   /\ store' = store
                   /\ that = Raised(Succeeded(p, "update-code"), "store_error")
           ELSE /\ NoFault
                /\ store' = store
                /\ that = Raised(p, "Failed to update code in Fienta")
  /\ UNCHANGED <<resolved, afterPass, npass>>
  /\ RowsCounted

\* PassUpdate as a step of the scheduled pass
PUpdate == PassUpdate(proc, proc') /\ ProcFrame

\* variant: the handler without the abort on a changed status
DeleteAbortsNever(st, c) == FALSE

\* the re-read found the row in another status than deleting
DeleteAborts(st, c) == Exists(st, c) /\ st[c].status /= "deleting"

\* _handle_code_deletion, the status re-read before acting
PassDelReread(this, that) ==
  /\ this.pc = "del_reread"
  /\ LET c == this.rec.code
         seen == IF Exists(store, c) THEN First(store, c).status ELSE "norow"
         did == Get(this.rec.md, "fienta_discount_id")
         eurl == Get(this.rec.md, "fienta_edit_url")
         p == [this EXCEPT !.reread = seen, !.did = did, !.eurl = eurl] IN
     IF DeleteAborts(store, c)
       THEN that = Returned(p)
       ELSE IF ~Truthy(did) \/ ~Truthy(eurl)
         THEN that = [p EXCEPT !.pc = "del_resolve"]
         ELSE that = [p EXCEPT !.pc = "del_gw"]
  /\ UNCHANGED <<resolved, nrows, store, afterPass, npass, nfault>>

\* PassDelReread as a step of the scheduled pass
PDelReread == PassDelReread(proc, proc') /\ ProcFrame

\* after identifier resolution: fail hard without a discount id, else delete
AfterResolve(p) ==
  IF ~Truthy(p.did)
    THEN [p EXCEPT !.pc = "mf_read",
                   !.mfprev = GetOr(p.rec.md, "previous_status", p.rec.status),
                   !.mferr = "Missing fienta_discount_id; cannot delete in Fienta",
                   !.mfafter = "return"]
    ELSE [p EXCEPT !.pc = "del_gw"]

\* _resolve_fienta_code_identifiers, step 1: the row's current metadata
PassDelResolve(this, that) ==
  /\ this.pc = "del_resolve"
  /\ LET c == this.rec.code
         md == IF Exists(store, c) THEN First(store, c).md ELSE EmptyMd
         did == Get(md, "fienta_discount_id")
         eurl == Get(md, "fienta_edit_url") IN
     IF Truthy(did) /\ Truthy(eurl)
       THEN /\ that = [this EXCEPT !.pc = "del_persist",
                                    !.res = [did |-> did, eurl |-> eurl]]
            /\ resolved' = resolved \cup {c}
       ELSE /\ that = [this EXCEPT !.pc = "del_scrape"]
            /\ resolved' = resolved
  /\ UNCHANGED <<nrows, store, afterPass, npass, nfault>>

\* PassDelResolve as a step of the scheduled pass
PDelResolve == PassDelResolve(proc, proc') /\ ProcFrame

\* _resolve_fienta_code_identifiers, step 2: the one-off scrape; a match is
\* persisted on the row before it is returned
PassDelScrape(this, that) ==
  /\ this.pc = "del_scrape"
  /\ LET c == this.rec.code
         p == Called(this, "scrape-code-details")
         cur == IF Exists(store, c) THEN First(store, c).md ELSE EmptyMd IN
     \E out \in ResolveOutcomes :
       IF out.found
         THEN /\ store' = UpdateMd(store, c,
                   ("fienta_discount_id" :> out.did)
                     @@ ("fienta_edit_url" :> out.eurl) @@ cur)
              /\ that = [p EXCEPT !.pc = "del_persist", !.wrote = Exists(store, c),
                                   !.res = [did |-> out.did, eurl |-> out.eurl]]
              /\ resolved' = resolved \cup {c}
         ELSE /\ store' = store
              /\ that = AfterResolve(p)
              /\ resolved' = resolved
  /\ UNCHANGED <<afterPass, npass, nfault>>
  /\ RowsCounted

\* PassDelScrape as a step of the scheduled pass
PDelScrape == PassDelScrape(proc, proc') /\ ProcFrame

\* _handle_code_deletion persists the resolved identifiers on the record
PassDelPersist(this, that) ==
  /\ this.pc = "del_persist"
  /\ LET c == this.rec.code
         did == IF Truthy(this.did) THEN this.did ELSE this.res.did
         eurl == IF Truthy(this.eurl) THEN this.eurl ELSE this.res.eurl
         ids == (IF Truthy(did) THEN "fienta_discount_id" :> did ELSE EmptyMd)
                  @@ (IF Truthy(eurl) THEN "fienta_edit_url" :> eurl ELSE EmptyMd) IN
     /\ store' = UpdateMd(store, c, ids @@ this.rec.md)
     /\ that = AfterResolve([this EXCEPT !.did = did, !.eurl = eurl,
                                          !.wrote = this.wrote \/ Exists(store, c)])
  /\ UNCHANGED <<resolved, afterPass, npass, nfault>>
  /\ RowsCounted

\* PassDelPersist as a step of the scheduled pass
PDelPersist == PassDelPersist(proc, proc') /\ ProcFrame

\* metadata written when the delete-code run succeeded
CompletionMd(md) ==
  ("deleted_in_fienta_at" :> "ts") @@ ("deletion_completed_by" :> "action_processor")
    @@ ("deletion_source" :> GetOr(md, "deletion_source", "unknown"))
    @@ ("deletion_method" :> GetOr(md, "deletion_method", "unknown"))
    @@ ("coordination_completed" :> "ts") @@ md

\* _handle_code_deletion, the delete-code run and its outcome
PassDelGateway(this, that) ==
  /\ this.pc = "del_gw"
  /\ LET c == this.rec.code
         p == Called(this, "delete-code") IN
     \E ok \in GatewayOutcomes("delete-code") :
       IF ok
         THEN \/ /\ NoFault
                 /\ store' = UpdateStatusMd(store, c, "deleted", CompletionMd(this.rec.md))
                 /\ that = Returned([Succeeded(p, "delete-code") EXCEPT !.wrote = TRUE])
              \/ /\ Fault
                 /\ store' = store
                 /\ that = Raised(Succeeded(p, "delete-code"), "store_error")
         ELSE /\ NoFault
              /\ store' = store
              /\ that = [p EXCEPT !.pc = "mf_read", !.mfprev = "active",
                                   !.mferr = "Playwright deletion did not complete",
                                   !.mfafter = "reraise"]
  /\ UNCHANGED <<resolved, afterPass, npass>>
  /\ RowsCounted

\* PassDelGateway as a step of the scheduled pass
PDelGateway == PassDelGateway(proc, proc') /\ ProcFrame

\* _handle_code_rename up to the rename-code run
PassRename(this, that) ==
  /\ this.pc = "rename"
  /\ LET new == Get(this.rec.md, "new_code")
         p == Called(this, "rename-code") IN
     IF ~Truthy(new)
       THEN that = Raised(this, "No new_code specified in metadata for rename operation")
       ELSE \E ok \in GatewayOutcomes("rename-code") :
              IF ok THEN that = [Succeeded(p, "rename-code") EXCEPT !.pc = "ren_delete"]
              ELSE that = Raised(p, "Failed to rename code in Fienta")
  /\ UNCHANGED <<resolved, nrows, store, afterPass, npass, nfault>>

\* PassRename as a step of the scheduled pass
PRename == PassRename(proc, proc') /\ ProcFrame

\* _handle_code_rename removes the old record
PassRenDelete(this, that) ==
  /\ this.pc = "ren_delete"
  /\ \/ /\ NoFault
        /\ store' = DeleteRows(store, this.rec.code)
        /\ that = [this EXCEPT !.pc = "ren_insert", !.wrote = TRUE]
     \/ /\ Fault
        /\ store' = store
        /\ that = Raised(this, "store_error")
  /\ UNCHANGED <<resolved, afterPass, npass>>
  /\ RowsCounted

\* PassRenDelete as a step of the scheduled pass
PRenDelete == PassRenDelete(proc, proc') /\ ProcFrame

\* _handle_code_rename inserts the record under the new code
PassRenInsert(this, that) ==
  /\ this.pc = "ren_insert"
  /\ LET old == this.rec.code
         new == this.rec.md["new_code"] IN
     IF InsertRejected(store, new)
       THEN /\ NoFault
            /\ store' = store
            /\ nrows' = nrows
            /\ that = Raised(this, "duplicate key value")
       ELSE \/ /\ NoFault
               /\ store' = InsertRow(store, new, "active",
                    ("renamed_from" :> old) @@ ("renamed_in_fienta_at" :> "ts")
                      @@ ("rename_method" :> "api_request") @@ this.rec.md)
               /\ nrows' = [nrows EXCEPT ![new] = @ + 1]
               /\ that = Returned(this)
            \/ /\ Fault
               /\ store' = store
               /\ nrows' = nrows
               /\ that = Raised(this, "store_error")
  /\ UNCHANGED <<resolved, afterPass, npass>>

\* PassRenInsert as a step of the scheduled pass
PRenInsert == PassRenInsert(proc, proc') /\ ProcFrame

\* variant: the metadata of the record as the pass selected it
MarkReadsSnapshot(st, rec) == rec.md

\* the metadata _mark_action_failed starts from: the row's current metadata,
\* or an empty dict when the select returns no row
MarkReads(st, rec) ==
  IF Exists(st, rec.code) THEN First(st, rec.code).md ELSE EmptyMd

\* _mark_action_failed reads the row's current metadata
PassMarkRead(this, that) ==
  /\ this.pc = "mf_read"
  /\ that = [this EXCEPT !.pc = "mf_write", !.existing = MarkReads(store, this.rec)]
  /\ UNCHANGED <<resolved, nrows, store, afterPass, npass, nfault>>

\* PassMarkRead as a step of the scheduled pass
PMarkRead == PassMarkRead(proc, proc') /\ ProcFrame

\* metadata _mark_action_failed writes
FailedMd(existing, err) ==
  ("action_failed" :> "true") @@ ("action_error" :> err) @@ ("failed_at" :> "ts")
    @@ existing

\* _mark_action_failed writes the flags and the status it was given, then the
\* caller returns, raises, or (failed delete-code) raises into the except
\* clause that marks the row failed once more
PassMarkWrite(this, that) ==
  /\ this.pc = "mf_write"
  /\ store' = UpdateStatusMd(store, this.rec.code, this.mfprev,
                             FailedMd(this.existing, this.mferr))
  /\ LET p == [this EXCEPT !.wrote = this.wrote \/ Exists(store, this.rec.code)] IN
     that = CASE this.mfafter = "return" -> Returned(p)
               [] this.mfafter = "raise" -> AfterRaise(p)
               [] OTHER -> Raised(p, "Failed to delete code from Fienta")
  /\ UNCHANGED <<resolved, afterPass, npass, nfault>>
  /\ RowsCounted

\* PassMarkWrite as a step of the scheduled pass
PMarkWrite == PassMarkWrite(proc, proc') /\ ProcFrame

\* ------------------------------------------------------------ Fienta monitor
MonFrame == UNCHANGED <<resolved, prior, proc, man, nreq, ncrud, npass, nfault, schedVars, hookVars>> /\ RowsCounted

RECURSIVE ScrapeSeq(_, _)
\* the scraped list, one item per code of the scrape, in order
ScrapeSeq(data, i) ==
  IF i > Len(CodeSeq) THEN <<>>
  ELSE (IF CodeSeq[i] \in DOMAIN data
          THEN << [code |-> CodeSeq[i], item |-> data[CodeSeq[i]]] >>
          ELSE <<>>)
       \o ScrapeSeq(data, i + 1)

\* what _scrape_basic_usage can return: usage data for any subset of codes
ScrapeData == UNION {[S -> ScrapeItems] : S \in SUBSET Codes}

\* how a scrape run ends: output read, subprocess timeout, non-zero exit,
\* output file not written
ScrapeOutcomes == {"ok", "timeout", "exit", "nofile"}

\* _create_batch_job returns the job, or raises (insert rejected, no table)
JobOutcomes == {"created", "failed"}

\* variant: a scrape failure that is passed over
ScrapeAbortsNever(o) == FALSE

\* a failed scrape raises (full cycle) or returns (fast check) before any
\* other step
ScrapeAborts(o) == o /= "ok"

\* variant: a cycle that gives up when a batch job call fails
JobFailureAbortsAlways(j) == j = "failed"

\* a failed batch job insert or update is logged and the cycle goes on
JobFailureAborts(j) == FALSE

\* the monitor has returned an envelope
MonReturn(env, o) == [MonIdle EXCEPT !.envelope = env, !.scrape = o]

\* run_monitoring_cycle starts; a failed scrape (timeout, non-zero exit,
\* missing output file) ends the cycle with success = False
MStart ==
  /\ mon.pc = "idle"
  /\ ncycle < MaxCycles
  /\ ProcAtAwait
  /\ \E job \in JobOutcomes, o \in ScrapeOutcomes, data \in ScrapeData :
       /\ o /= "ok" => DOMAIN data = {}
       /\ IF ScrapeAborts(o) \/ JobFailureAborts(job)
            THEN /\ mon' = MonReturn("failure", o)
                 /\ ncycle' = ncycle + 1
            ELSE /\ mon' = [MonIdle EXCEPT !.kind = "full", !.E = DOMAIN data,
                              !.items = ScrapeSeq(data, 1), !.job = job, !.scrape = o,
                              !.used = \E c \in DOMAIN data : data[c].used /= "0",
                              !.data = data,
                              !.rest0 = [c \in Codes |->
                                           IF c \in DOMAIN data THEN NoRow ELSE store[c]],
                              !.pc = IF DOMAIN data = {} THEN "cleanup_sel" ELSE "sync"]
                 /\ ncycle' = ncycle
  /\ UNCHANGED <<store, afterPass, nfast>>
  /\ MonFrame

\* _sync_codes_to_supabase, one scraped code: the row is updated in place,
\* an unseen code inserted
MSync ==
  /\ mon.pc = "sync"
  /\ ProcAtAwait
  /\ LET it == Head(mon.items)
         c == it.code IN
     /\ store' = IF Exists(store, c)
                   THEN UpdateStatusMd(store, c, SyncStatus(it.item), SyncMd(it.item))
                   ELSE InsertRow(store, c, SyncStatus(it.item), SyncMd(it.item))
     /\ mon' = [mon EXCEPT !.items = Tail(mon.items),
                           !.pc = IF Tail(mon.items) = <<>> THEN "cleanup_sel" ELSE "sync"]
  /\ Disturb
  /\ UNCHANGED <<ncycle, nfast>>
  /\ MonFrame

\* the select of a cleanup pass: rows in status active
ActiveRows(st) == SelectWhere(st, {"active"}, 1)

\* _cleanup_deleted_codes reads the active rows
MCleanupSelect ==
  /\ mon.pc = "cleanup_sel"
  /\ ProcAtAwait
  /\ mon' = [mon EXCEPT !.list = ActiveRows(store),
                        !.snap = [c \in Codes |-> store[c].status],
                        !.pc = IF ActiveRows(store) = <<>> THEN "finish" ELSE "cleanup_row"]
  /\ UNCHANGED <<store, afterPass, ncycle, nfast>>
  /\ MonFrame

\* variant: the test without the comparison against the scrape
CleanupHitsAll(row, E) == row.status = "active"

\* the test of _cleanup_deleted_codes on one selected row
CleanupHits(row, E) == row.code \notin E /\ row.status = "active"

\* metadata _cleanup_deleted_codes writes
CleanupMd(existing, row) ==
  ("deleted_at" :> "ts") @@ ("deletion_source" :> "monitoring_cleanup")
    @@ ("deletion_method" :> "monitoring_cleanup")
    @@ ("deletion_reason" :> "missing_from_fienta")
    @@ ("deletion_completed_by" :> "fienta_monitor")
    @@ ("previous_status" :> row.status) @@ existing

\* _get_existing_metadata
ExistingMd(st, c) == IF Exists(st, c) THEN st[c].md ELSE EmptyMd

\* _cleanup_deleted_codes, one selected row
MCleanupRow ==
  /\ mon.pc = "cleanup_row"
  /\ LET row == Head(mon.list)
         rest == Tail(mon.list)
         m == [mon EXCEPT !.list = rest,
                          !.pc = IF rest = <<>> THEN "finish" ELSE "cleanup_row"] IN
     IF CleanupHits(row, mon.E)
       THEN /\ store' = UpdateStatusMd(store, row.code, "deleted",
                          CleanupMd(ExistingMd(store, row.code), row))
            /\ mon' = [m EXCEPT !.wrote = mon.wrote \cup {row.code}]
            /\ Disturb
       ELSE /\ mon' = m
            /\ UNCHANGED <<store, afterPass>>
  /\ UNCHANGED <<ncycle, nfast>>
  /\ MonFrame

\* _sync_orders_to_supabase: an order not yet in the table is inserted, one
\* that is there is updated
SyncOrders(tbl, D) ==
  [x \in OrderIds |-> IF x \in D /\ tbl[x] = 0 THEN 1 ELSE tbl[x]]

\* the rest of the cycle and its return: the order scrape when a scraped
\* code has orders, the order sync, the batch job update (its failure is
\* logged); a failed order scrape ends the cycle with success = False
MFinish ==
  /\ mon.pc = "finish"
  /\ mon.kind = "full"
  /\ \E o \in ScrapeOutcomes, D \in SUBSET OrderIds, upd \in JobOutcomes :
       /\ (o /= "ok" \/ ~mon.used) => D = {}
       /\ ~mon.used => o = "ok"
       /\ mon.job = "failed" => upd = "failed"
       /\ IF (mon.used /\ ScrapeAborts(o)) \/ JobFailureAborts(upd)
            THEN /\ mon' = MonReturn("failure", o)
                 /\ UNCHANGED orders
            ELSE /\ mon' = MonReturn("success", o)
                 /\ orders' = SyncOrders(orders, D)
  /\ ncycle' = ncycle + 1
  /\ UNCHANGED <<store, afterPass, nfast>>
  /\ UNCHANGED <<resolved, nrows, prior, proc, man, nreq, ncrud, npass, nfault, schedVars,
                 processed_webhooks, hook>>

\* what list-codes can return: the code names, and identifiers captured for
\* some of them
FastData == {[codes |-> S, captured |-> K] : S \in SUBSET Codes, K \in SUBSET Codes}

\* the identifiers list-codes captures for a code: both, or the discount id
\* alone
FullCapture == ("discountId" :> "fid") @@ ("editUrl" :> "furl")

FastCaptures == {FullCapture, "discountId" :> "fid"}

RECURSIVE CodesIn(_, _)
\* the codes of K in order
CodesIn(K, i) ==
  IF i > Len(CodeSeq) THEN <<>>
  ELSE (IF CodeSeq[i] \in K THEN << CodeSeq[i] >> ELSE <<>>) \o CodesIn(K, i + 1)

\* run_fast_check starts; a failed list-codes run ends it with success = False
FStart ==
  /\ mon.pc = "idle"
  /\ nfast < MaxFast
  /\ ProcAtAwait
  /\ \E o \in ScrapeOutcomes, data \in FastData, cap \in FastCaptures :
       /\ data.captured \subseteq data.codes
       /\ data.captured = {} => cap = FullCapture
       /\ o /= "ok" => data.codes = {}
       /\ IF ScrapeAborts(o)
            THEN /\ mon' = MonReturn("failure", o)
                 /\ nfast' = nfast + 1
            ELSE /\ mon' = [MonIdle EXCEPT !.kind = "fast", !.E = data.codes,
                              !.items = CodesIn(data.captured, 1), !.scrape = o,
                              !.cap = IF data.captured = {} THEN << >> ELSE cap,
                              !.pc = IF data.captured = {} THEN "fclean_sel" ELSE "fmeta"]
                 /\ nfast' = nfast
  /\ UNCHANGED <<store, afterPass, ncycle>>
  /\ MonFrame

\* variant: the captured identifiers written over the ones present
FastMetaMdOverwrite(existing, cap) ==
  ("metadata_updated_at" :> "ts") @@ ("metadata_source" :> "fast_monitoring")
    @@ ("fienta_discount_id" :> "fid") @@ ("fienta_edit_url" :> "furl") @@ existing

\* metadata _update_codes_metadata writes for identifiers not yet present
FastMetaMd(existing, cap) ==
  LET a == IF "discountId" \in DOMAIN cap /\ ~Truthy(Get(existing, "fienta_discount_id"))
             THEN "fienta_discount_id" :> cap["discountId"] ELSE EmptyMd
      b == IF "editUrl" \in DOMAIN cap /\ ~Truthy(Get(existing, "fienta_edit_url"))
             THEN "fienta_edit_url" :> cap["editUrl"] ELSE EmptyMd
  IN IF DOMAIN a = {} /\ DOMAIN b = {} THEN existing
     ELSE ("metadata_updated_at" :> "ts") @@ ("metadata_source" :> "fast_monitoring")
            @@ a @@ b @@ existing

\* _update_codes_metadata, one captured code
FMeta ==
  /\ mon.pc = "fmeta"
  /\ LET c == Head(mon.items)
         rest == Tail(mon.items)
         new == FastMetaMd(store[c].md, mon.cap) IN
     /\ IF Exists(store, c) /\ new /= store[c].md
          THEN store' = UpdateMd(store, c, new) /\ Disturb
          ELSE UNCHANGED <<store, afterPass>>
     /\ mon' = [mon EXCEPT !.items = rest,
                           !.pc = IF rest = <<>> THEN "fclean_sel" ELSE "fmeta"]
  /\ UNCHANGED <<ncycle, nfast>>
  /\ MonFrame

\* _fast_cleanup_deleted_codes reads the active rows
FCleanupSelect ==
  /\ mon.pc = "fclean_sel"
  /\ mon' = [mon EXCEPT !.list = ActiveRows(store),
                        !.snap = [c \in Codes |-> store[c].status],
                        !.pc = IF ActiveRows(store) = <<>> THEN "finish" ELSE "fclean_row"]
  /\ UNCHANGED <<store, afterPass, ncycle, nfast>>
  /\ MonFrame

\* the test of _fast_cleanup_deleted_codes on one selected row
FastCleanupHits(row, E) == row.code \notin E

\* metadata _fast_cleanup_deleted_codes writes
FastCleanupMd(existing) ==
  ("deleted_at" :> "ts") @@ ("deletion_source" :> "fast_monitoring")
    @@ ("deletion_method" :> "fast_monitoring")
    @@ ("deletion_reason" :> "missing_from_fienta_fast_check")
    @@ ("deletion_completed_by" :> "fienta_monitor")
    @@ ("previous_status" :> "active") @@ existing

\* _fast_cleanup_deleted_codes, one selected row
FCleanupRow ==
  /\ mon.pc = "fclean_row"
  /\ LET row == Head(mon.list)
         rest == Tail(mon.list)
         m == [mon EXCEPT !.list = rest,
                          !.pc = IF rest = <<>> THEN "finish" ELSE "fclean_row"] IN
     IF FastCleanupHits(row, mon.E)
       THEN /\ store' = UpdateStatusMd(store, row.code, "deleted",
                          FastCleanupMd(ExistingMd(store, row.code)))
            /\ mon' = [m EXCEPT !.wrote = mon.wrote \cup {row.code}]
            /\ Disturb
       ELSE /\ mon' = m
            /\ UNCHANGED <<store, afterPass>>
  /\ UNCHANGED <<ncycle, nfast>>
  /\ MonFrame

\* run_fast_check returns
FFinish ==
  /\ mon.pc = "finish"
  /\ mon.kind = "fast"
  /\ mon' = MonReturn("success", "ok")
  /\ nfast' = nfast + 1
  /\ UNCHANGED <<store, afterPass, ncycle>>
  /\ MonFrame

\* ------------------------------------------------------------ the scheduler
\* MonitoringScheduler: start(), stop() and the loop task of _schedule_loop.
\* A loop task holds the event loop while it runs (at = "run") and gives it
\* up at an await that suspends (at = "await"): the asyncio.sleep calls of
\* the loop, of a pass and of a full cycle.  A fast check has no such await.
\* Timestamps and run_count are left out.

TaskIds == 1..MaxStarts

StopIds == 1..MaxStops

\* the steps the loop issues: the full cycle at start, an action-processor
\* pass, a fast check, the full cycle at the end of a round
Steps == {"cycle0", "pass", "fast", "cycle"}

\* steps that hold an asyncio.sleep
AwaitingSteps == {"cycle0", "pass", "cycle"}

\* a step returns an envelope with success True, one with success False, or
\* raises
StepOutcomes == {"ok", "failed", "raised"}

\* a started step counts as one more of its kind, up to the bound
Bump(n, cap) == IF n < cap THEN n + 1 ELSE n

\* loop tasks that have been created and have not finished
Alive == {t \in TaskIds : tasks[t].pc \notin {"none", "done"}}

\* no loop task holds the event loop
NoneRunning == \A t \in TaskIds : tasks[t].at /= "run"

\* the ready queue of the event loop is first in, first out: the wake-up
\* that cancel() queues for a task runs before the first step of a task
\* created afterwards
Runnable(t) ==
  /\ NoneRunning
  /\ \A u \in TaskIds : (u < t /\ tasks[u].cancel) => tasks[u].pc = "done"

SchedFrame ==
  UNCHANGED <<store, prior, proc, man, mon, afterPass, resolved, nrows,
              nreq, ncrud, npass, ncycle, nfast, nfault, hookVars>>

\* the task id create_task hands out
NewTask == CHOOSE t \in TaskIds :
             tasks[t].pc = "none" /\ \A u \in TaskIds : u < t => tasks[u].pc /= "none"

\* MonitoringScheduler.start
start ==
  /\ NoneRunning
  /\ calls.starts < MaxStarts
  /\ calls' = [calls EXCEPT !.starts = @ + 1]
  /\ IF is_running
       THEN UNCHANGED <<is_running, current_task, tasks>>
       ELSE /\ is_running' = TRUE
            /\ tasks' = [tasks EXCEPT ![NewTask] = [NoTask EXCEPT !.pc = "created"]]
            /\ current_task' = NewTask
  /\ UNCHANGED <<stops, error_count>>
  /\ SchedFrame

\* Task.cancel() without the request: the task is left as it was
CancelSkipped(k) == k

\* Task.cancel(): a task that has not finished gets a cancellation request
Cancel(k) == IF k.pc = "done" THEN k ELSE [k EXCEPT !.cancel = TRUE]

\* MonitoringScheduler.stop up to its await (or its return)
stop(s) ==
  /\ NoneRunning
  /\ s = calls.stops + 1
  /\ IF ~is_running
       THEN /\ stops' = [stops EXCEPT ![s] = [pc |-> "returned", task |-> 0, alive |-> Alive]]
            /\ calls' = [calls EXCEPT !.stops = s, !.quiet = @ \cup Alive]
            /\ UNCHANGED <<is_running, tasks>>
       ELSE /\ is_running' = FALSE
            /\ IF current_task /= 0
                 THEN /\ tasks' = [tasks EXCEPT ![current_task] = Cancel(@)]
                      /\ stops' = [stops EXCEPT ![s] =
                                     [pc |-> "await", task |-> current_task, alive |-> Alive]]
                      /\ calls' = [calls EXCEPT !.stops = s]
                 ELSE /\ stops' = [stops EXCEPT ![s] =
                                     [pc |-> "returned", task |-> 0, alive |-> Alive]]
                      /\ calls' = [calls EXCEPT !.stops = s, !.quiet = @ \cup Alive]
                      /\ UNCHANGED tasks
  /\ UNCHANGED <<current_task, error_count>>
  /\ SchedFrame

\* MonitoringScheduler.stop from its await to its return
stop_returns(s) ==
  /\ NoneRunning
  /\ stops[s].pc = "await"
  /\ tasks[stops[s].task].pc = "done"
  /\ stops' = [stops EXCEPT ![s].pc = "returned"]
  /\ calls' = [calls EXCEPT !.quiet = @ \cup stops[s].alive]
  /\ UNCHANGED <<is_running, current_task, tasks, error_count>>
  /\ SchedFrame

\* a cancellation request that is never raised in the task
DeliveredNever(k) == FALSE

\* a task resumed with a cancellation request gets CancelledError at its await
Delivered(k) == k.cancel

\* CancelledError ends the task: it is no Exception, so no except clause of
\* a step catches it; the loop breaks on it or lets it through
Ended(k) == [NoTask EXCEPT !.pc = "done", !.cancel = k.cancel, !.endedIn = k.pc]

\* the task goes on after an await without a cancellation request
Resumed(k) == [k EXCEPT !.at = "run", !.cancel = FALSE]

\* the loop calls a step
BeginStep(k, step) == [Resumed(k) EXCEPT !.pc = step, !.awaits = 0]

\* while self.is_running: a new round of ticks, or the end of the loop
WhileTop(k, r) ==
  IF r THEN BeginStep([k EXCEPT !.i = 0, !.j = 0], "pass") ELSE Ended(k)

\* if not self.is_running: break, at the head of either for loop
TickTop(k, r) == IF r THEN BeginStep(k, "pass") ELSE Ended(k)

\* the end of tick i: the next tick, or the full cycle after the last one
AfterTick(k, r) ==
  IF k.i + 1 < Ticks
    THEN TickTop([k EXCEPT !.i = @ + 1, !.j = 0], r)
    ELSE IF r THEN BeginStep(k, "cycle") ELSE Ended(k)

\* after asyncio.sleep(30): the next pass of the tick, or the fast check
AfterSleep(k, r) ==
  IF k.j + 1 < PassesPerTick
    THEN TickTop([k EXCEPT !.j = @ + 1], r)
    ELSE IF k.i > 0 /\ r THEN BeginStep(k, "fast") ELSE AfterTick(k, r)

\* the wrappers without their except clauses
EscapesRaised(step, o) == o = "raised"

\* an exception of a step that leaves its wrapper (_run_monitoring_cycle,
\* _run_fast_monitoring, _process_pending_actions): each wrapper catches
\* Exception
Escapes(step, o) == FALSE

\* what the wrapper of a step adds to error_count
WrapperErrors(step, o) ==
  IF step \in {"cycle0", "cycle"} /\ o /= "ok" THEN 1 ELSE 0

\* the ghost counts of the steps finished since the last full cycle
Counted(k) ==
  IF k.pc = "pass" THEN [k EXCEPT !.passes = Bump(@, Ticks * PassesPerTick + 1)]
  ELSE IF k.pc = "fast" THEN [k EXCEPT !.fasts = Bump(@, Ticks)]
  ELSE [k EXCEPT !.passes = 0, !.fasts = 0]

\* the first step of the loop task
loop_begin(t) ==
  /\ Runnable(t)
  /\ tasks[t].pc = "created"
  /\ tasks' = [tasks EXCEPT ![t] =
                 IF Delivered(@) THEN Ended(@) ELSE BeginStep(@, "cycle0")]
  /\ UNCHANGED <<is_running, current_task, stops, error_count, calls>>
  /\ SchedFrame

\* a step reaches an asyncio.sleep
step_await(t) ==
  /\ tasks[t].at = "run"
  /\ tasks[t].pc \in AwaitingSteps
  /\ tasks[t].awaits < MaxAwaits
  /\ tasks' = [tasks EXCEPT ![t].at = "await", ![t].awaits = @ + 1]
  /\ UNCHANGED <<is_running, current_task, stops, error_count, calls>>
  /\ SchedFrame

\* the asyncio.sleep of a step is over
step_resume(t) ==
  /\ Runnable(t)
  /\ tasks[t].pc \in Steps
  /\ tasks[t].at = "await"
  /\ tasks' = [tasks EXCEPT ![t] = IF Delivered(@) THEN Ended(@) ELSE Resumed(@)]
  /\ UNCHANGED <<is_running, current_task, stops, error_count, calls>>
  /\ SchedFrame

\* a step is over, and the loop goes on to its next await
step_end(t, o) ==
  LET k == tasks[t]
      r == is_running
  IN
  /\ k.at = "run"
  /\ k.pc \in Steps
  /\ o /= "ok" => calls.failures < MaxFailures
  /\ calls' = [calls EXCEPT !.failures = IF o = "ok" THEN @ ELSE @ + 1]
  /\ IF Escapes(k.pc, o)
       THEN IF k.pc = "cycle0"
              THEN /\ tasks' = [tasks EXCEPT ![t] = Ended(k)]
                   /\ UNCHANGED error_count
              ELSE /\ tasks' = [tasks EXCEPT ![t] = [k EXCEPT !.pc = "backoff", !.at = "await"]]
                   /\ error_count' = error_count + 1
       ELSE /\ error_count' = error_count + WrapperErrors(k.pc, o)
            /\ tasks' = [tasks EXCEPT ![t] =
                 IF k.pc \in {"cycle0", "cycle"} THEN WhileTop(Counted(k), r)
                 ELSE IF k.pc = "pass"
                   THEN [Counted(k) EXCEPT !.pc = "sleep30", !.at = "await"]
                 ELSE AfterTick(Counted(k), r)]
  /\ UNCHANGED <<is_running, current_task, stops>>
  /\ SchedFrame

\* asyncio.sleep(30) after a pass, or asyncio.sleep(60) after an error, is over
sleep_done(t) ==
  LET k == tasks[t]
  IN
  /\ Runnable(t)
  /\ k.pc \in {"sleep30", "backoff"}
  /\ tasks' = [tasks EXCEPT ![t] =
                 IF Delivered(k) THEN Ended(k)
                 ELSE IF k.pc = "sleep30" THEN AfterSleep(k, is_running)
                 ELSE WhileTop(k, is_running)]
  /\ UNCHANGED <<is_running, current_task, stops, error_count, calls>>
  /\ SchedFrame

\* a step of a loop task
LoopStep(t) ==
  \/ loop_begin(t)
  \/ step_await(t)
  \/ step_resume(t)
  \/ \E o \in StepOutcomes : step_end(t, o)
  \/ sleep_done(t)

Scheduler ==
  \/ start
  \/ \E s \in StopIds : stop(s)
  \/ \E s \in StopIds : stop_returns(s)
  \/ \E t \in TaskIds : loop_begin(t)
  \/ \E t \in TaskIds : step_await(t)
  \/ \E t \in TaskIds : step_resume(t)
  \/ \E t \in TaskIds, o \in StepOutcomes : step_end(t, o)
  \/ \E t \in TaskIds : sleep_done(t)

Monitor ==
  \/ MStart \/ MSync \/ MCleanupSelect \/ MCleanupRow \/ MFinish
  \/ FStart \/ FMeta \/ FCleanupSelect \/ FCleanupRow \/ FFinish

Processor ==
  \/ PStart \/ PWake \/ POthers \/ PFinish
  \/ PCreate \/ PUpdate
  \/ PDelReread \/ PDelResolve \/ PDelScrape \/ PDelPersist \/ PDelGateway
  \/ PRename \/ PRenDelete \/ PRenInsert
  \/ PMarkRead \/ PMarkWrite

\* ---------------------------------------------------------------- webhooks
HookFrame ==
  UNCHANGED <<store, prior, proc, man, mon, afterPass, resolved, nrows,
              nreq, ncrud, npass, ncycle, nfast, nfault, schedVars>>

\* the event types that make receive_make_webhook process an order
OrderEvents == {"order.created", "order.completed", "order_created", "order_completed"}

\* the payloads delivered: the keys event_id, id and order_id each absent or
\* set, the event type, and the nested order object absent, without an id, or
\* with one
Payloads ==
  [event_id : {"None"} \cup EventIds,
   id : {"None", "o1"},
   order_id : {"None", "o2"},
   event_type : {"order.created", "order_completed", "unknown"},
   order : {"None", "noid", "o1"}]

\* the X-Make-Token header against settings.make_token
Tokens == {"valid", "invalid"}

\* payload.get("event_id") or payload.get("id") or payload.get("order_id")
EventIdOf(p) ==
  IF p.event_id /= "None" THEN p.event_id
  ELSE IF p.id /= "None" THEN p.id
  ELSE p.order_id

\* str(order_data.get("id") or order_data.get("order_id", "")) with
\* order_data = payload.get("order", payload)
ExternalIdOf(p) ==
  LET od == IF p.order = "None" THEN [id |-> p.id, order_id |-> p.order_id]
            ELSE IF p.order = "noid" THEN [id |-> "None", order_id |-> "None"]
            ELSE [id |-> p.order, order_id |-> "None"] IN
  IF od.id /= "None" THEN od.id
  ELSE IF od.order_id /= "None" THEN od.order_id
  ELSE ""

\* variant: the duplicate check finds nothing
AlreadyProcessedNever(tbl, eid) == FALSE

\* select("id").eq("event_id", event_id) on processed_webhooks returned a row
AlreadyProcessed(tbl, eid) == tbl[eid] > 0

\* an insert of one row under the key
Inserted(tbl, k) == [tbl EXCEPT ![k] = @ + 1]

\* the except clause of receive_make_webhook turns what was raised in the
\* try block into HTTP 500
Wrapped(code) == 500

\* the detail of that HTTP 500: f"Error processing webhook: {str(e)}"
WrappedDetail(d) == "Error processing webhook: " \o d

\* the response of the delivery
Answer(st, detail, eid) ==
  hook' = [status |-> st, detail |-> detail, eid |-> eid, n |-> hook.n + 1]

\* POST /api/webhooks/make/webhook: verify_make_token, then
\* receive_make_webhook with process_order_webhook
receive_make_webhook(token, payload) ==
  /\ hook.n < MaxDeliveries
  /\ LET event_id == EventIdOf(payload)
         external_id == ExternalIdOf(payload) IN
     IF token /= "valid"
       THEN /\ Answer(401, "Invalid webhook token", event_id)
            /\ UNCHANGED <<processed_webhooks, orders>>
     ELSE IF event_id = "None"
       THEN /\ Answer(Wrapped(400), WrappedDetail("Missing event_id in payload"), event_id)
            /\ UNCHANGED <<processed_webhooks, orders>>
     ELSE IF AlreadyProcessed(processed_webhooks, event_id)
       THEN /\ Answer(200, "already processed", event_id)
            /\ UNCHANGED <<processed_webhooks, orders>>
     ELSE /\ processed_webhooks' = Inserted(processed_webhooks, event_id)
          /\ IF payload.event_type \notin OrderEvents
               THEN /\ Answer(200, "processed", event_id)
                    /\ UNCHANGED orders
             ELSE IF external_id = ""
               THEN /\ Answer(Wrapped(500), WrappedDetail("Missing order ID in webhook payload"), event_id)
                    /\ UNCHANGED orders
             ELSE IF orders[external_id] > 0
               THEN /\ Answer(200, "updated", event_id)
                    /\ UNCHANGED orders
             ELSE /\ Answer(200, "created", event_id)
                  /\ orders' = Inserted(orders, external_id)
  /\ HookFrame

Webhooks == \E token \in Tokens, payload \in Payloads : receive_make_webhook(token, payload)

\* trigger_action_processing: the steps of a pass on the scheduler's action
\* processor, run for POST /process-now
Manual ==
  \/ (PassStart(man, man') /\ ProcAtAwait /\ ManFrame)
  \/ (PassWake(man, man') /\ ProcAtAwait /\ ManFrame)
  \/ (PassOthers(man, man') /\ ManFrame)
  \/ (PassFinish(man, man') /\ ManFrame)
  \/ (PassCreate(man, man') /\ ManFrame)
  \/ (PassUpdate(man, man') /\ ManFrame)
  \/ (PassDelReread(man, man') /\ ManFrame)
  \/ (PassDelResolve(man, man') /\ ManFrame)
  \/ (PassDelScrape(man, man') /\ ManFrame)
  \/ (PassDelPersist(man, man') /\ ManFrame)
  \/ (PassDelGateway(man, man') /\ ManFrame)
  \/ (PassRename(man, man') /\ ManFrame)
  \/ (PassRenDelete(man, man') /\ ManFrame)
  \/ (PassRenInsert(man, man') /\ ManFrame)
  \/ (PassMarkRead(man, man') /\ ManFrame)
  \/ (PassMarkWrite(man, man') /\ ManFrame)

Requests ==
  \/ \E c \in Codes, data \in CreateInputs : request_code_creation(c, data)
  \/ \E c \in Codes, data \in UpdateInputs : request_code_update(c, data)
  \/ \E c \in Codes : request_code_deletion(c)
  \/ \E old \in Codes, new \in Codes : request_code_rename(old, new)

\* statuses the modelled PUT requests set
CrudStatuses == {"active", "revoked", "updating", "deleting", "renaming", "deleted"}

Crud ==
  \/ \E c \in Codes : create_code(c)
  \/ \E c \in Codes, s \in CrudStatuses : update_code(c, s)

Next == Requests \/ Crud \/ Processor \/ Manual \/ Monitor \/ Scheduler \/ Webhooks

Spec == Init /\ [][Next]_vars

\* the action processor among API clients that write to the same rows
ProcNext == Requests \/ Crud \/ Processor

ProcSpec == Init /\ [][ProcNext]_vars

\* the monitor among API clients that write to the same rows
MonNext == Requests \/ Crud \/ Monitor

MonSpec == Init /\ [][MonNext]_vars

\* the steps as the scheduler loop issues them, one after the other, among
\* clients of the actions API
SeqNext ==
  \/ Requests
  \/ (mon.pc = "idle" /\ Processor)
  \/ (proc.pc = "idle" /\ Monitor)

SeqSpec == Init /\ [][SeqNext]_vars

\* a scheduled pass and a manually triggered pass on the rows API clients
\* have staged before either pass runs
OverlapNext ==
  \/ (proc.pc = "idle" /\ man.pc = "idle" /\ npass = 0 /\ Requests)
  \/ (proc.pc = "idle" /\ man.pc = "idle" /\ npass = 0 /\ Crud)
  \/ Processor
  \/ Manual

OverlapSpec == Init /\ [][OverlapNext]_vars

\* webhook deliveries on their own
HookNext == Webhooks

HookSpec == Init /\ [][HookNext]_vars

\* a full cycle on its own
CycleNext == MStart \/ MSync \/ MCleanupSelect \/ MCleanupRow \/ MFinish

CycleSpec == Init /\ [][CycleNext]_vars

\* the scheduler alone, its steps taken as wholes, on an empty store
SchedNext == Scheduler

SchedStart == Init /\ \A c \in Codes : ~Exists(store, c)

SchedSpec == SchedStart /\ [][SchedNext]_vars

\* the event loop runs every task that is ready, every sleep ends and every
\* step ends
FairSchedSpec == SchedSpec /\ WF_vars(\E t \in TaskIds : LoopStep(t))

\* ------------------------------------------------------------- properties
\* a step of a cleanup pass on one selected row
CleanupStep == mon.pc \in {"cleanup_row", "fclean_row"} /\ mon' /= mon

\* a step of the monitor
MonitorStep == mon' /= mon

\* no other actor has written to the store since the running pass started
Undisturbed == afterPass.st = "running"

\* the step with which the handler of the current record ends in failure
HandlerFails ==
  /\ proc.pc = "mf_write"
  /\ proc.mfafter \in {"raise", "return"}
  /\ proc' /= proc
  /\ Undisturbed

\* C1: while a row is in a pending status (creating, updating, deleting,
\* renaming), no step of a cleanup pass changes its status, also when the row
\* became pending after the pass read its list of active rows.
C1_CleanupLeavesPending ==
  [][CleanupStep =>
       \A c \in Codes :
         store[c].status \in PendingStatuses => store'[c].status = store[c].status]_vars

\* C2: a cleanup pass with scrape set E writes a row iff the row was active
\* when the pass read the store and its code is not in E; the write sets the
\* status to deleted, and no other row changes.
C2_CleanupExact ==
  /\ [](mon.pc = "finish" =>
          mon.wrote = {c \in Codes : mon.snap[c] = "active" /\ c \notin mon.E})
  /\ [][CleanupStep =>
          LET c == Head(mon.list).code IN
          /\ \A d \in Codes \ {c} : store'[d] = store[d]
          /\ IF mon.snap[c] = "active" /\ c \notin mon.E
               THEN store'[c].status = "deleted"
               ELSE store'[c] = store[c]]_vars

\* a finished cleanup pass that marked one active row deleted and kept
\* another active row that the scrape contains
C2_Witness ==
  /\ mon.pc = "finish"
  /\ mon.wrote /= {}
  /\ \E c \in mon.E : mon.snap[c] = "active" /\ store[c].status = "active"

\* C3: once a row has status deleted, no step of a full cycle or of a fast
\* check changes its status.
C3_DeletedTerminal ==
  [][MonitorStep =>
       \A c \in Codes : store[c].status = "deleted" => store'[c].status = "deleted"]_vars

\* C4: the upsert step of a full cycle leaves the status of every existing row
\* whose status is not active unchanged.
C4_UpsertKeepsStatus ==
  [][(mon.pc = "sync" /\ MonitorStep) =>
       \A c \in Codes :
         (Exists(store, c) /\ store[c].status /= "active")
           => store'[c].status = store[c].status]_vars

C6_FailedDeleteActive ==
  [][(HandlerFails /\ proc.rec.status = "deleting" /\ "delete-code" \in proc.calls
        /\ proc.mferr = "Failed to delete code from Fienta"
        /\ Exists(store, proc.rec.code)) =>
       /\ store'[proc.rec.code].status = "active"
       /\ Get(store'[proc.rec.code].md, "action_failed") = "true"]_vars

\* C7: when the handling of a row selected in status creating or updating
\* fails, it ends with the status the row held before the intent (where it had
\* one), and not with the pending status.
C7_FailureReverts ==
  [][(HandlerFails /\ proc.rec.status \in {"creating", "updating"}
        /\ Exists(store, proc.rec.code)) =>
       /\ store'[proc.rec.code].status /= proc.rec.status
       /\ prior[proc.rec.code] \in Statuses
            => store'[proc.rec.code].status = prior[proc.rec.code]]_vars

\* C8: when the re-read of the delete handler finds the row in another status
\* than deleting, the handler has ended without a gateway call and without a
\* write to the store.
C8_RereadAborts ==
  proc.reread \notin {"-", "deleting", "norow"} =>
    (proc.pc = "sleep" /\ proc.calls = {} /\ ~proc.wrote)

\* the delete handler re-read a row that another client had set back to active
C8_Witness ==
  proc.reread = "active" /\ proc.rec.status = "deleting" /\ proc.pc = "sleep"

\* C9: when the discount id of a row selected in status deleting is absent and
\* cannot be resolved, the handling ends without a delete-code run, with
\* action_failed = true, and with status active or the recorded previous
\* status, never deleting.
C9_UnresolvedDeleteReverts ==
  [][(HandlerFails /\ proc.mfafter = "return" /\ proc.rec.status = "deleting"
        /\ Exists(store, proc.rec.code)) =>
       LET row == store'[proc.rec.code] IN
       /\ "delete-code" \notin proc.calls
       /\ Get(row.md, "action_failed") = "true"
       /\ row.status /= "deleting"
       /\ row.status \in {"active", Get(proc.rec.md, "previous_status")}]_vars

\* the step with which the rename handler ends after the rename-code run
\* succeeded and no store call raised a network or server error
RenameEnds ==
  /\ proc' /= proc
  /\ proc.rec.status = "renaming"
  /\ "rename-code" \in proc.calls
  /\ nfault' = 0
  /\ Undisturbed
  /\ \/ proc.pc = "ren_insert" /\ proc'.pc = "sleep"
     \/ proc.pc = "mf_write" /\ proc.mfafter = "raise"

\* C10: after a rename intent is processed with a successful rename-code run,
\* there is no row under the old code and the row under the new code is
\* active with renamed_from = old code.
C10_RenameRoundTrip ==
  [][RenameEnds =>
       LET old == proc.rec.code
           new == proc.rec.md["new_code"] IN
       /\ ~Exists(store', old)
       /\ store'[new].status = "active"
       /\ Get(store'[new].md, "renamed_from") = old]_vars

\* the step with which the creation handler ends with its success write
CreateSucceeds ==
  /\ proc.pc = "create"
  /\ proc'.pc = "sleep"
  /\ proc.rec.status = "creating"
  /\ Exists(store, proc.rec.code)

\* the creation parameters a request can supply
CreationKeys ==
  {"discount_percent", "discount_amount", "max_uses", "expires_at", "description"}

\* C11: when create-code succeeds for a row selected in status creating, the
\* row ends active, its metadata keeps the creation parameters of the request,
\* has created_in_fienta_at and has no action_failed key.
C11_CreateSuccess ==
  [][CreateSucceeds =>
       LET row == store'[proc.rec.code] IN
       /\ row.status = "active"
       /\ \A k \in DOMAIN proc.rec.md \cap CreationKeys : Get(row.md, k) = proc.rec.md[k]
       /\ "created_in_fienta_at" \in DOMAIN row.md
       /\ "action_failed" \notin DOMAIN row.md]_vars

\* a request of the actions API was accepted
RequestAccepted == nreq' = nreq + 1

\* C12: no accepted request of the actions API changes a row that is in a
\* pending status: neither its status nor its intent payload.
C12_OneIntentAtATime ==
  [][RequestAccepted =>
       \A c \in Codes :
         store[c].status \in PendingStatuses => store'[c] = store[c]]_vars

\* C13 as stated: no step removes a row from the store.
C13_NoRowRemoved ==
  [][\A c \in Codes : Exists(store, c) => Exists(store', c)]_vars

\* C13: a row is removed from the store only by the rename handler, which
\* removes the row under the old code after a successful rename-code run; no
\* request, no other handler and no step of the monitor removes a row.
C13_RemovedOnlyByRename ==
  [][\A c \in Codes :
       (Exists(store, c) /\ ~Exists(store', c)) =>
         /\ proc.pc = "ren_delete"
         /\ proc.rec.code = c
         /\ "rename-code" \in proc.calls]_vars

\* the rename handler has removed the row under the old code, and a row has
\* been set to deleted by the monitor or by a handler without being removed
C13_Witness ==
  /\ proc.pc = "ren_insert"
  /\ ~Exists(store, proc.rec.code)
  /\ \E c \in Codes : store[c].status = "deleted"

\* C14: a pass ends with an envelope, and once its loop over the selected code
\* rows is over every selected row has been handled, also when the handler of
\* one of them raised.
C14_PassHandlesEveryRow ==
  /\ proc.pc = "ret" => proc.envelope \in {"success", "failure"}
  /\ (proc.pc \in {"done", "ret"} /\ "codes" \notin proc.qfail) =>
       (proc.queue = <<>> /\ proc.handled = proc.selected)

\* a row is being handled after the handler of an earlier row of the same
\* pass raised
C14_Witness ==
  /\ proc.raised
  /\ proc.pc \in {"create", "update", "rename", "del_reread"}
  /\ proc.mfafter = "-"

\* C15: a pass runs the query of every category and returns the success
\* envelope, also when the query of one category raised.
C15_QueryFailureContained ==
  proc.pc = "ret" => (proc.envelope = "success" /\ proc.ran = Categories)

\* a call of start(), a call of stop()
StartCall == calls'.starts = calls.starts + 1

StopCall == calls'.stops = calls.stops + 1

\* C16: for any sequence of start() and stop() calls, start() on a running
\* scheduler and stop() on a stopped scheduler change nothing, a running
\* scheduler has its current loop task, and at most one loop task is alive
\* (created and not finished) at any time
C16_StartStopStates ==
  /\ [](/\ is_running \in BOOLEAN
        /\ is_running => current_task \in Alive
        /\ Cardinality(Alive) <= 1)
  /\ [][((StartCall /\ is_running) \/ (StopCall /\ ~is_running)) =>
          UNCHANGED <<is_running, current_task, tasks, error_count>>]_vars

\* C17: once a call of stop() has returned, the loop tasks that were alive
\* when it was called issue nothing more: none of them holds the event loop
\* again (no pass, fast check or full cycle starts or continues, hence no
\* Gateway call and no store write), and each can only end; this also holds
\* for a second stop() that returns while the first still awaits the task
C17_QuietAfterStop ==
  [][\A t \in calls.quiet :
       /\ tasks[t].at = "await"
       /\ tasks'[t].at = "await"
       /\ tasks'[t] /= tasks[t] => tasks'[t].pc = "done"]_vars

\* a second stop() has returned while the first awaits the loop task, which
\* is suspended in a step with its cancellation pending
C17_Witness ==
  \E s1 \in StopIds, s2 \in StopIds :
    /\ stops[s1].pc = "await"
    /\ stops[s2].pc = "returned"
    /\ stops[s1].task \in calls.quiet
    /\ tasks[stops[s1].task].pc \in AwaitingSteps
    /\ tasks[stops[s1].task].cancel

\* the step that comes after n passes and fast checks since the last full
\* cycle: two passes in the first tick, two passes and a fast check in each
\* of the other ticks, then the full cycle
ExpectedStep(n) ==
  IF n < PassesPerTick THEN "pass"
  ELSE IF n = Ticks * PassesPerTick + (Ticks - 1) THEN "cycle"
  ELSE IF (n - PassesPerTick) % (PassesPerTick + 1) = PassesPerTick THEN "fast"
  ELSE "pass"

\* loop task t starts a step
StepBegins(t) == tasks'[t].pc \in Steps /\ tasks'[t].pc /= tasks[t].pc

\* C18: the first step of a loop is a full cycle; after it every step is the
\* one the order asks for (15 ticks of two passes, a fast check in every tick
\* but the first, then a full cycle), so a full cycle at the end of a round
\* comes after exactly 30 passes and 14 fast checks, whether steps fail or
\* not
C18_StepOrder ==
  /\ [](\A t \in TaskIds :
          /\ tasks[t].pc \in {"pass", "fast", "cycle"} =>
               tasks[t].pc = ExpectedStep(tasks[t].passes + tasks[t].fasts)
          /\ tasks[t].pc = "cycle" =>
               (tasks[t].passes = 30 /\ tasks[t].fasts = 14))
  /\ [][\A t \in TaskIds :
          StepBegins(t) =>
            /\ tasks[t].pc = "created" <=> tasks'[t].pc = "cycle0"
            /\ tasks'[t].pc /= "cycle0" =>
                 tasks'[t].pc = ExpectedStep(tasks'[t].passes + tasks'[t].fasts)]_vars

\* a round with a failed step has reached its full cycle
C18_Witness ==
  \E t \in TaskIds :
    /\ tasks[t].pc = "cycle"
    /\ tasks[t].passes = 30
    /\ tasks[t].fasts = 14
    /\ calls.failures > 0

\* loop tasks with a step in progress: started and not over, running or
\* suspended in one of its awaits
InStep == {t \in TaskIds : tasks[t].pc \in Steps}

\* C19: at no time are two steps issued by the scheduler (pass, fast check,
\* full cycle) in progress at once, for any sequence of start() and stop()
\* calls; a loop started after a stop() starts its first step only when the
\* earlier loop has ended, and never holds the event loop together with it
C19_NoOverlap ==
  /\ [](Cardinality(InStep) <= 1)
  /\ [](Cardinality({t \in TaskIds : tasks[t].at = "run"}) <= 1)
  /\ [][\A t \in TaskIds :
          StepBegins(t) => \A u \in TaskIds : u < t => tasks[u].pc = "done"]_vars

\* a loop started after a stop() is in a step; the earlier loop was
\* suspended in a step when the new loop was created, and has been cancelled
\* there
C19_Witness ==
  \E t \in TaskIds, u \in TaskIds :
    /\ u < t
    /\ tasks[u].pc = "done"
    /\ tasks[u].cancel
    /\ tasks[u].endedIn \in AwaitingSteps
    /\ tasks[t].pc \in Steps
    /\ \E s \in StopIds : stops[s].pc = "await" /\ stops[s].task = u

\* a pass is in progress, a full cycle is in progress
PassInProgress == \E t \in TaskIds : tasks[t].pc = "pass"

CycleInProgress == \E t \in TaskIds : tasks[t].pc \in {"cycle0", "cycle"}

\* C20: no step that ends, in success, failure or exception, ends the loop
\* task; if from some point on the scheduler is never stopped, passes and
\* full cycles occur again and again; and a loop task that enters the
\* backoff has added one to error_count and leaves the backoff only into a
\* new round of ticks, or by ending when it is cancelled
C20_LoopKeepsGoing ==
  /\ [][\A t \in TaskIds : tasks[t].at = "run" => tasks'[t].pc /= "done"]_vars
  /\ <>[]is_running => ([]<>PassInProgress /\ []<>CycleInProgress)
  /\ [][\A t \in TaskIds :
          /\ (tasks[t].pc /= "backoff" /\ tasks'[t].pc = "backoff") =>
               error_count' = error_count + 1
          /\ (tasks[t].pc = "backoff" /\ tasks'[t].pc /= "backoff") =>
               \/ tasks'[t].pc = "done" /\ tasks[t].cancel
               \/ tasks'[t].pc = "pass" /\ tasks'[t].i = 0 /\ tasks'[t].j = 0]_vars

\* a full cycle has failed, its wrapper has counted the error, and the loop
\* has gone on to finish passes
C20_Witness ==
  \E t \in TaskIds :
    /\ is_running
    /\ error_count > 0
    /\ calls.failures > 0
    /\ tasks[t].pc = "pass"
    /\ tasks[t].passes > 0

\* the step with which a full cycle or a fast check returns after a scrape
\* that failed (timeout, non-zero exit, missing output file)
ScrapeFailed ==
  /\ mon'.pc = "idle"
  /\ mon' /= mon
  /\ mon'.scrape \in ScrapeOutcomes \ {"ok"}

\* C21: a full cycle or fast check whose scrape fails returns an envelope
\* with success = false at once: the failing step writes nothing to the codes
\* or orders table (so it marks no code deleted), and no upsert, metadata
\* update or cleanup step ever runs on a failed scrape; the monitor always
\* returns an envelope and raises nothing
C21_FailedScrapeStops ==
  /\ [][ScrapeFailed =>
          /\ mon'.envelope = "failure"
          /\ store' = store
          /\ orders' = orders]_vars
  /\ [](mon.pc /= "idle" => mon.scrape = "ok")
  /\ [](mon.pc = "idle" => mon.envelope \in {"-", "success", "failure"})
  /\ [](mon.envelope = "success" => mon.scrape = "ok")

\* a monitor run has returned failure after its scrape produced no output
\* file, and a row that is active, which a cleanup on an empty scrape would
\* have marked deleted, is still active
C21_Witness ==
  /\ mon.pc = "idle"
  /\ mon.envelope = "failure"
  /\ mon.scrape = "nofile"
  /\ \E c \in Codes : store[c].status = "active"

\* the row a full cycle that runs alone leaves for code c: the upserted row
\* when the scrape has the code, the row marked deleted when it has not and
\* the row was active, the row as it was otherwise
CycleRow(c, data, rest0) ==
  IF c \in DOMAIN data
    THEN [status |-> SyncStatus(data[c]), md |-> SyncMd(data[c])]
  ELSE IF rest0[c].status = "active"
    THEN [status |-> "deleted",
          md |-> CleanupMd(rest0[c].md, [code |-> c, status |-> "active"])]
  ELSE rest0[c]

\* C22: a full cycle that runs alone leaves the codes table that its scrape
\* and the table it started from determine, syncs the orders of its order
\* scrape, and returns success exactly when its scrapes did not fail,
\* whether the batch job insert and update succeed or fail
C22_JobIndependent ==
  /\ [](mon.pc = "finish" =>
          \A c \in Codes : store[c] = CycleRow(c, mon.data, mon.rest0))
  /\ [][(mon.pc = "finish" /\ mon' /= mon) =>
          /\ store' = store
          /\ mon'.envelope = "success" <=> mon'.scrape = "ok"
          /\ mon'.envelope = "failure" => orders' = orders
          /\ \A x \in OrderIds : orders'[x] >= orders[x] /\ orders'[x] <= 1]_vars
  /\ [](mon.pc = "idle" /\ mon.envelope /= "-" =>
          (mon.envelope = "success" <=> mon.scrape = "ok"))

\* a cycle whose batch job insert failed has upserted a code and marked
\* another deleted
C22_Witness ==
  /\ mon.pc = "finish"
  /\ mon.job = "failed"
  /\ mon.wrote /= {}
  /\ DOMAIN mon.data /= {}

\* the identifier keys of a row's metadata, and the keys with which
\* _update_codes_metadata stamps a row it fills
IdKeys == {"fienta_discount_id", "fienta_edit_url"}

StampKeys == {"metadata_updated_at", "metadata_source"}

\* the step of _update_codes_metadata on one captured code
FastMetaStep == mon.pc = "fmeta" /\ mon' /= mon

\* no step of a fast check changes an identifier that is present and non-empty
FastKeepsIds ==
  (mon.kind = "fast" /\ MonitorStep) =>
    \A c \in Codes, k \in IdKeys :
      Truthy(Get(store[c].md, k)) => Get(store'[c].md, k) = Get(store[c].md, k)

\* C23 (as stated): a fast check never changes an identifier that is present;
\* its metadata update touches only the row of the captured code, keeps the
\* status, fills only identifiers that are absent, leaves every other
\* metadata key as it was, and writes nothing to a row that has both
\* identifiers
C23_OnlyIdentifiersChange ==
  [][/\ FastKeepsIds
     /\ FastMetaStep =>
          LET c == Head(mon.items)
              old == store[c].md
              new == store'[c].md IN
          /\ \A d \in Codes \ {c} : store'[d] = store[d]
          /\ store'[c].status = store[c].status
          /\ \A k \in (DOMAIN old \cup DOMAIN new) \ IdKeys :
               k \in DOMAIN old /\ k \in DOMAIN new /\ new[k] = old[k]
          /\ (\A k \in IdKeys : Truthy(Get(old, k))) => new = old]_vars

\* C23 (amended): as above, except that a metadata update that fills an
\* identifier also sets the keys metadata_updated_at and metadata_source;
\* every key other than these two and the filled identifiers stays as it
\* was, and a row is written only when an identifier is filled
C23_FillsAbsentOnly ==
  [][/\ FastKeepsIds
     /\ FastMetaStep =>
          LET c == Head(mon.items)
              old == store[c].md
              new == store'[c].md IN
          /\ \A d \in Codes \ {c} : store'[d] = store[d]
          /\ store'[c].status = store[c].status
          /\ DOMAIN old \subseteq DOMAIN new
          /\ DOMAIN new \subseteq DOMAIN old \cup IdKeys \cup StampKeys
          /\ \A k \in DOMAIN old \ StampKeys :
               new[k] = old[k] \/ (k \in IdKeys /\ ~Truthy(old[k]))
          /\ (\A k \in IdKeys : Truthy(Get(old, k))) => new = old
          /\ new /= old =>
               \E k \in IdKeys : ~Truthy(Get(old, k)) /\ Truthy(Get(new, k))]_vars

\* a fast check has filled the identifiers of a row that had none, and left
\* alone a row that had both
C23_Witness ==
  /\ mon.kind = "fast"
  /\ mon.pc = "fclean_sel"
  /\ \E c \in Codes :
       /\ Get(store[c].md, "metadata_source") = "fast_monitoring"
       /\ Get(store[c].md, "fienta_discount_id") = "fid"
  /\ \E c \in Codes :
       /\ Get(store[c].md, "fienta_discount_id") = "id"
       /\ "metadata_source" \notin DOMAIN store[c].md

\* C24: every row a cleanup pass moves to deleted gets deletion_reason
\* missing_from_fienta and deletion_source monitoring_cleanup (full cycle) or
\* fast_monitoring (fast check), and keeps every metadata key and value it had
C24_CleanupStamps ==
  [][CleanupStep =>
       \A c \in Codes :
         (store[c].status /= "deleted" /\ store'[c].status = "deleted") =>
           /\ Get(store'[c].md, "deletion_reason") = "missing_from_fienta"
           /\ Get(store'[c].md, "deletion_source") =
                (IF mon.kind = "full" THEN "monitoring_cleanup" ELSE "fast_monitoring")
           /\ \A k \in DOMAIN store[c].md :
                k \in DOMAIN store'[c].md /\ store'[c].md[k] = store[c].md[k]]_vars

\* _mark_action_failed has run for the record whose handling failed
MarkedFailed == proc.pc = "mf_write" /\ proc' /= proc

\* C25: whenever the handling of a code intent fails, a row for that code
\* exists afterwards whose metadata has action_failed = true and a non-empty
\* action_error
C25_FailureSurfaced ==
  [][MarkedFailed =>
       LET c == proc.rec.code IN
       /\ Exists(store', c)
       /\ Get(store'[c].md, "action_failed") = "true"
       /\ Truthy(Get(store'[c].md, "action_error"))]_vars

\* the loop of _process_code_actions hands a selected record to
\* _process_single_code_action
Dispatched == proc'.rec /= proc.rec /\ proc'.rec /= NoRec

\* the handler named by a pending status or by an action value, as the
\* position at which it starts
HandlerOf(x) ==
  CASE x \in {"creating", "create"} -> "create"
    [] x \in {"deleting", "delete"} -> "del_reread"
    [] x \in {"updating", "update"} -> "update"
    [] x \in {"renaming", "rename"} -> "rename"
    [] OTHER -> "sleep"

\* C30: a selected row whose status is one of the four pending values is
\* handled by the handler of that status whatever the action field of its
\* metadata says; the action field decides only for a status that is not
\* pending
C30_StatusDecidesHandler ==
  [][Dispatched =>
       IF proc'.rec.status \in PendingStatuses
         THEN proc'.pc = HandlerOf(proc'.rec.status)
         ELSE proc'.pc = HandlerOf(Get(proc'.rec.md, "action"))]_vars

\* C27: a code leaves status deleted only through a create request: an
\* accepted update, rename or delete request leaves a deleted row deleted,
\* and a create request for a code whose row is deleted is accepted and puts
\* the code in status creating
C27_DeletedIsTerminal ==
  /\ [][RequestAccepted =>
          \A c \in Codes :
            store[c].status = "deleted" => store'[c].status \in {"deleted", "creating"}]_vars
  /\ [](\A c \in Codes :
          (store[c].status = "deleted" /\ nreq < MaxRequests) =>
            ENABLED (/\ RequestAccepted
                     /\ \E data \in CreateInputs : request_code_creation(c, data)
                     /\ store'[c].status = "creating"))

\* the gateway operations that change the external system
MutatingOps == {"create-code", "update-code", "rename-code", "delete-code"}

\* a step in which a pass invokes a gateway operation for its current record
Invokes(this, that, op) ==
  <<op, this.rec.code>> \in that.passCalls \ this.passCalls

\* C26: when a manually triggered pass overlaps a scheduled pass, neither
\* invokes a mutating gateway operation for a selected record for which the
\* other has already invoked that operation with success
C26_InvokedAtMostOnce ==
  [][\A op \in MutatingOps :
       /\ Invokes(proc, proc', op) => <<op, proc.rec>> \notin man.okCalls
       /\ Invokes(man, man', op) => <<op, man.rec>> \notin proc.okCalls]_vars

\* a delivery that passed verify_make_token was handled by
\* receive_make_webhook
HandlerRan == hook'.n = hook.n + 1 /\ hook'.status /= 401

\* C28: a delivery handled by receive_make_webhook whose event id is already
\* recorded in processed_webhooks is answered as already processed and
\* inserts nothing into processed_webhooks or orders; every event id is
\* recorded at most once and every order is created at most once
C28_DuplicateSkipped ==
  /\ [][(/\ HandlerRan
         /\ hook'.eid /= "None"
         /\ processed_webhooks[hook'.eid] > 0) =>
          /\ hook'.status = 200
          /\ hook'.detail = "already processed"
          /\ processed_webhooks' = processed_webhooks
          /\ orders' = orders]_vars
  /\ [](\A e \in DOMAIN processed_webhooks : processed_webhooks[e] <= 1)
  /\ [](\A x \in OrderIds : orders[x] <= 1)

\* the delivery of a recorded event whose order exists was answered as
\* already processed
C28_Witness ==
  /\ hook.n >= 2
  /\ hook.status = 200
  /\ hook.detail = "already processed"
  /\ processed_webhooks[hook.eid] = 1
  /\ \E x \in OrderIds : orders[x] = 1

\* C29: a delivery with a valid token whose payload has no event_id, id or
\* order_id is answered with HTTP 400 'Missing event_id' and writes nothing
C29_MissingEventId ==
  [][(HandlerRan /\ hook'.eid = "None") =>
       /\ hook'.status = 400
       /\ hook'.detail = "Missing event_id in payload"
       /\ processed_webhooks' = processed_webhooks
       /\ orders' = orders
       /\ store' = store]_vars

\* the keys under which a request stages a value: new_<key> for the keys of
\* the modelled request bodies, and new_code of a rename request
StagedKeys == {"new_" \o f : f \in UpdateFields \cup {"note", "code"}}

\* the step with which the update handler ends after a successful
\* update-code call and its write to the store
UpdateSucceeds ==
  /\ proc.pc = "update"
  /\ proc'.pc = "sleep"
  /\ <<"update-code", proc.rec>> \in proc'.okCalls
  /\ Exists(store, proc.rec.code)

\* C31: after an update intent is processed with a successful update-code
\* call, the row is active, every value staged as new_<field> is stored under
\* <field>, and no metadata key beginning with new_ remains
C31_UpdatePromotesAll ==
  [][UpdateSucceeds =>
       LET old == proc.rec.md
           row == store'[proc.rec.code] IN
       /\ row.status = "active"
       /\ \A f \in UpdateFields \cup {"note"} :
            ("new_" \o f) \in DOMAIN old => Get(row.md, f) = old["new_" \o f]
       /\ DOMAIN row.md \cap StagedKeys = {}]_vars

\* the current record of the pass was selected in status updating and stages
\* no value the update handler recognises
NothingStaged ==
  /\ proc.rec.status = "updating"
  /\ DOMAIN UpdateParams(proc.rec.md) = {}

\* C32: for a row selected in status updating that stages no recognised
\* new_<field> value, the pass issues no gateway call, does not flag the row
\* failed and leaves its status and metadata as they were
C32_NothingStagedNoop ==
  (NothingStaged /\ Undisturbed) =>
    /\ proc.calls = {}
    /\ store[proc.rec.code].status = "updating"
    /\ store[proc.rec.code].md = proc.rec.md

\* the keys _mark_action_failed sets
FailKeys == {"action_failed", "action_error", "failed_at"}

\* C33: mark-failed starts from the metadata the store holds when it runs,
\* also when another actor wrote to the row after the pass selected it, and
\* changes only action_failed, action_error, failed_at and the status: every
\* other key of that metadata is written back with its value, and no other
\* key is added
C33_MarkFailedKeepsOthers ==
  /\ [][(proc.pc = "mf_read" /\ proc' /= proc) =>
          LET c == proc.rec.code IN
          /\ store' = store
          /\ Exists(store, c) => proc'.existing = store[c].md]_vars
  /\ [][(MarkedFailed /\ Exists(store, proc.rec.code)) =>
          LET c == proc.rec.code
              new == store'[c].md IN
          /\ \A d \in Codes \ {c} : store'[d] = store[d]
          /\ DOMAIN new = DOMAIN proc.existing \cup FailKeys
          /\ \A k \in DOMAIN proc.existing \ FailKeys : new[k] = proc.existing[k]]_vars

\* mark-failed has flagged a row that another actor wrote to after the pass
\* selected it, and the row carries that actor's keys
C33_Witness ==
  /\ proc.pc = "sleep"
  /\ proc.mferr /= "-"
  /\ Exists(store, proc.rec.code)
  /\ Get(store[proc.rec.code].md, "action_failed") = "true"
  /\ "request_method" \notin DOMAIN proc.rec.md
  /\ Get(store[proc.rec.code].md, "request_method") = "api"

\* the delete handler invokes delete-code, the delete handler runs the
\* one-off scrape-code-details
DeleteCodeInvoked == proc.pc = "del_gw" /\ proc' /= proc

ScrapeDetailsInvoked == proc.pc = "del_scrape" /\ proc' /= proc

\* the current record carries the flag of a delete attempt whose delete-code
\* run failed
AfterFailedDelete ==
  Get(proc.rec.md, "action_error") = "Failed to delete code from Fienta"

\* C34: the identifiers a resolution returned are in the row when delete-code
\* is invoked, and a delete attempt that follows a failed delete-code run
\* issues no scrape-code-details call for a code for which a resolution has
\* already returned identifiers
C34_ResolvedOnce ==
  /\ [][(DeleteCodeInvoked /\ Undisturbed /\ Exists(store, proc.rec.code)) =>
          LET md == store[proc.rec.code].md IN
          /\ Truthy(proc.res.did) => Truthy(Get(md, "fienta_discount_id"))
          /\ Truthy(proc.res.eurl) => Truthy(Get(md, "fienta_edit_url"))]_vars
  /\ [][(ScrapeDetailsInvoked /\ AfterFailedDelete) =>
          proc.rec.code \notin resolved]_vars

\* the rename handler's insert of the new row raised after its delete of the
\* old row
RenameInsertFails == proc.pc = "ren_insert" /\ proc'.pc = "mf_read"

\* a row under the code carries the metadata of the record being renamed
Carries(st, c) ==
  /\ Exists(st, c)
  /\ \A k \in DOMAIN proc.rec.md : Get(st[c].md, k) = proc.rec.md[k]

\* C35: when the rename handler's insert fails after its delete, the record
\* is not lost: a row under old_code or under new_code carries its metadata
C35_RenameKeepsRecord ==
  [][RenameInsertFails =>
       \/ Carries(store', proc.rec.code)
       \/ Carries(store', proc.rec.md["new_code"])]_vars

\* process_pending_actions returns from a pass during which no other actor
\* wrote to the store
PassReturnsUndisturbed == proc.pc = "ret" /\ proc'.pc = "idle" /\ Undisturbed

\* C36: when a pass returns, every row it selected in a pending status, and
\* that no other actor wrote to during the pass, is in a non-pending status
\* or carries action_failed = true
C36_PassSettlesSelected ==
  [][PassReturnsUndisturbed =>
       \A c \in proc.selected :
         Exists(store', c) =>
           \/ store'[c].status \notin PendingStatuses
           \/ Get(store'[c].md, "action_failed") = "true"]_vars

\* the while loop of _schedule_loop comes round again: the passes are counted
\* up to MaxPasses and then anew
NextTick ==
  /\ proc.pc = "idle"
  /\ npass = MaxPasses
  /\ npass' = 0
  /\ UNCHANGED <<store, prior, proc, man, mon, afterPass, resolved, nrows,
                 nreq, ncrud, ncycle, nfast, nfault, schedVars, hookVars>>

\* the processor as the running scheduler drives it, pass after pass, among
\* clients of the actions API
LiveNext == Requests \/ Processor \/ NextTick

\* the scheduler is running: a pass that can start or go on does so, and the
\* loop comes round; the faults are finitely many, so every gateway call
\* eventually succeeds
LiveSpec == Init /\ [][LiveNext]_vars /\ WF_vars(Processor) /\ WF_vars(NextTick)

\* C37: with the scheduler running and every gateway call eventually
\* succeeding, every row in a pending status eventually reaches a non-pending
\* status
C37_PendingSettles ==
  \A c \in Codes :
    (store[c].status \in PendingStatuses) ~> (store[c].status \notin PendingStatuses)

\* run_monitoring_cycle returns success from a full cycle after which no
\* intent is pending
FullCycleSucceeds ==
  /\ mon.pc = "finish" /\ mon.kind = "full"
  /\ mon'.pc = "idle" /\ mon'.envelope = "success"
  /\ PendingCodes(store') = {}

UpsertOfExisting ==
  /\ mon.pc = "sync" /\ MonitorStep
  /\ Exists(store, Head(mon.items).code)

\* the keys the upsert refreshes from the scrape
RefreshedKeys ==
  {"orders_used", "order_limit", "last_scraped", "fienta_event_id",
   "fienta_discount_id", "fienta_edit_url"}

\* C40: the full-cycle upsert of an existing row keeps every metadata key it
\* does not refresh (the intent envelope, the failure flags), and keeps a
\* captured fienta_discount_id or fienta_edit_url when the scrape carries
\* none
C40_UpsertKeepsMetadata ==
  [][UpsertOfExisting =>
       LET c == Head(mon.items).code
           it == Head(mon.items).item IN
       /\ \A k \in DOMAIN store[c].md \ RefreshedKeys :
            Get(store'[c].md, k) = store[c].md[k]
       /\ (~Truthy(it.did) /\ Truthy(Get(store[c].md, "fienta_discount_id")))
            => Get(store'[c].md, "fienta_discount_id")
                 = Get(store[c].md, "fienta_discount_id")
       /\ (~Truthy(it.eurl) /\ Truthy(Get(store[c].md, "fienta_edit_url")))
            => Get(store'[c].md, "fienta_edit_url")
                 = Get(store[c].md, "fienta_edit_url")]_vars
====
